---- MODULE Spec2Model ----
(***************************************************************************)
(* A model of helper.py of DSB2018: the run-length encoder, the IoU        *)
(* metric, the size estimator, the probability-map post-processor, the     *)
(* watershed splitters and the checkpoint pointer.                         *)
(*                                                                         *)
(* Images.  A 2-D array of shape (h, w) is the sequence of its h*w pixels  *)
(* in row-major order, which is numpy's .flatten(); pixel (r, c), both     *)
(* 0-based, is element r*w + c + 1.  The transpose's flatten (y.T.flatten) *)
(* is the column-major order, position c*h + r.                            *)
(*                                                                         *)
(* Reals.  Probabilities are integers on a scale 0..MaxProb and the        *)
(* threshold is a point of that scale; areas, intersections and unions are *)
(* pixel counts; an IoU is the pair <<intersection, union>> and a          *)
(* precision the pair <<tp, tp+fp+fn>>, compared by cross-multiplication.  *)
(* The sweep thresholds 0.50, 0.55, ..., 0.95 are the percentages 50..95:  *)
(* numpy's arange yields doubles that are never below the nearest double   *)
(* of the nominal value, and an IoU of pixel counts that exceeds a nominal *)
(* threshold exceeds it by at least 1/(20*union), so the strict comparison *)
(* of the doubles agrees with the exact one.                               *)
(***************************************************************************)
EXTENDS Integers, Sequences, FiniteSets, TLC

\* ---------------------------------------------------------------- bounds
MaxPixels == 6      \* an image has at most this many pixels (h * w)
IouPixels == 3      \* images handed to iou_metric as arrays
MaxLabel == 4       \* largest label value of a truth LabelImage
MaxProb == 1        \* probabilities are 0..MaxProb
SizeLabels == 2     \* values of an image handed to evaluate_size are 0..SizeLabels
RatioDen == 4       \* ratios are k / RatioDen, 0 < k <= RatioDen
WsPixels == 4       \* images handed to the watershed splitters
MaxWeight == 1      \* edge_weight_factor is 0..MaxWeight
RlesPixels == 4     \* probability maps handed to prob_to_rles
MaxStops == 2       \* next() calls answered by StopIteration
MaxRuns == 2        \* invocations of prob_to_rles on one argument
MaxMinSize == 3     \* min_object_size is 0..MaxMinSize
MaxEpoch == 3       \* epochs passed to save_ckpt are 1..MaxEpoch
MaxSaves == 4       \* save_ckpt calls in one run

VARIABLES
    \* rle_encoding
    rle_shape,      \* <<h, w>> of y
    rle_y,          \* the boolean mask y
    rle_dots,       \* dots: 0-based column-major positions of the true pixels
    rle_k,          \* position of the for loop in dots (1-based)
    run_lengths,    \* the list being built
    rle_prev,       \* prev
    rle_pc,         \* "idle" | "loop" | "done"
    \* config (read once, shared by every function)
    threshold,      \* config['param']['threshold']
    \* iou_metric
    instance_level, \* the flag
    iou_shape,      \* <<h, w>> of both inputs
    y_true_in,      \* the truth argument
    y_pred_in,      \* the prediction argument
    labels,         \* the truth LabelImage the function works on
    y_pred,         \* the predicted LabelImage the function works on
    intersection,   \* the 2-D histogram, first row and column included
    area_true,      \* the histogram of labels
    area_pred,      \* the histogram of y_pred
    iou,            \* per cell [inter, union], first row and column dropped
    iou_ti,         \* position of the sweep: 0..10 thresholds done
    prec,           \* the list prec, each p as <<numerator, denominator>>
    iou_rows,       \* per threshold <<t, tp, fp, fn>> (the rows print_table shows)
    iou_score,      \* the returned mean as <<numerator, denominator>>
    iou_pc,         \* "idle" | "label" | "hist" | "union" | "sweep" | "done"
    \* evaluate_size
    size_shape,     \* <<h, w>> of image
    size_image,     \* the argument image
    size_ratio,     \* the argument ratio as <<numerator, denominator>>
    label_image,    \* label(image)
    label_counts,   \* len(np.unique(label_image))
    areas,          \* the sorted list of region areas
    eval_count,     \* eval_count
    size_used,      \* areas[:eval_count], the areas that are averaged
    average_area,   \* their mean as <<sum, count>>; <<0, 0>> is nan
    size_pc,        \* "idle" | "label" | "areas" | "count" | "mean" | "done"
    \* seg_ws, seg_ws_by_edge and the watershed they end in
    ws_fn,          \* "none" | "seg_ws" | "seg_ws_by_edge"
    ws_shape,       \* <<h, w>> of the arguments
    ws_image,       \* seg_ws: the argument image
    raw_bodies,     \* seg_ws_by_edge: the body probabilities
    raw_edges,      \* seg_ws_by_edge: the edge probabilities
    edge_weight,    \* config['post']['edge_weight_factor']
    ws_mask,        \* watershed's mask
    ws_markers,     \* watershed's markers
    ws_out,         \* watershed's output array, filled as the flood goes
    ws_pc,          \* "idle" | "call" | "flood" | "done"
    \* prob_to_rles (a generator)
    rles_shape,     \* <<h, w>> of the argument
    rles_in,        \* the argument y, a probability map
    segmentation,   \* config['post']['segmentation']
    remove_objects, \* config['post']['remove_objects']
    min_object_size,\* config['post']['min_object_size']
    rles_y,         \* the local y: the mask after the threshold and the removal
    lab_img,        \* lab_img
    rles_i,         \* the loop variable i
    yielded,        \* the RLEs this generator has yielded, in order
    rles_stops,     \* StopIterations this generator has raised
    rles_runs,      \* invocations with this argument so far
    rles_first,     \* what the first invocation yielded in all
    rles_pc,        \* "idle" | "start" | "remove" | "label" | "segment" |
                    \* "in_seg" | "loop" | "exhausted"
    \* checkpoint handling: the directory ./checkpoint and its callers
    ck_dir,         \* the directory exists
    ck_current,     \* the epoch in current.json; 0: there is no current.json
    ck_files,       \* the epochs e whose ckpt-e.pkl exists (it holds epoch e)
    ck_epoch,       \* save_ckpt's argument epoch while it runs
    ck_last,        \* the epoch of the latest save_ckpt call; 0: none yet
    ck_saves,       \* save_ckpt calls so far
    ck_loaded,      \* what the latest load_ckpt returned; -1: not called yet
    ck_pc           \* "idle" | "saving": between ckpt_path(epoch) and torch.save

rleVars == <<rle_shape, rle_y, rle_dots, rle_k, run_lengths, rle_prev, rle_pc>>
iouVars == <<instance_level, iou_shape, y_true_in, y_pred_in, labels, y_pred,
             intersection, area_true, area_pred, iou, iou_ti, prec, iou_rows,
             iou_score, iou_pc>>
sizeVars == <<size_shape, size_image, size_ratio, label_image, label_counts, areas,
              eval_count, size_used, average_area, size_pc>>
wsVars == <<ws_fn, ws_shape, ws_image, raw_bodies, raw_edges, edge_weight, ws_mask,
            ws_markers, ws_out, ws_pc>>
rlesVars == <<rles_shape, rles_in, segmentation, remove_objects, min_object_size,
              rles_y, lab_img, rles_i, yielded, rles_stops, rles_runs, rles_first,
              rles_pc>>
ckVars == <<ck_dir, ck_current, ck_files, ck_epoch, ck_last, ck_saves, ck_loaded, ck_pc>>
vars == <<rleVars, threshold, iouVars, sizeVars, wsVars, rlesVars, ckVars>>

\* ------------------------------------------------------ arrays and images
Shapes(n) == {s \in (1..n) \X (1..n) : s[1] * s[2] <= n}

Images(shape, vals) == [1..(shape[1] * shape[2]) -> vals]

Range(f) == {f[i] : i \in DOMAIN f}

Min(S) == CHOOSE x \in S : \A y \in S : x <= y

Max(S) == CHOOSE x \in S : \A y \in S : x >= y

RowOf(i, shape) == (i - 1) \div shape[2]

ColOf(i, shape) == (i - 1) % shape[2]

\* 0-based position of row-major element i in the transposed array's flatten
ColMajorPos(i, shape) == ColOf(i, shape) * shape[1] + RowOf(i, shape)

\* the ascending sequence of the elements of a finite set of integers
RECURSIVE SortedSeq(_)
SortedSeq(S) == IF S = {} THEN <<>> ELSE <<Min(S)>> \o SortedSeq(S \ {Min(S)})

\* ----------------------------------------------------------- rle_encoding
\* the same scan without the transpose (positions in row-major order)
DotsRowMajor(y, shape) == SortedSeq({i - 1 : i \in {j \in DOMAIN y : y[j]}})

\* np.where(y.T.flatten() == 1)[0]
Dots(y, shape) == SortedSeq({ColMajorPos(i, shape) : i \in {j \in DOMAIN y : y[j]}})

RleInit ==
    /\ rle_shape \in Shapes(MaxPixels)
    /\ rle_y \in Images(rle_shape, BOOLEAN)
    /\ rle_dots = Dots(rle_y, rle_shape)
    /\ rle_k = 1
    /\ run_lengths = <<>>
    /\ rle_prev = -2
    /\ rle_pc = "loop"

RleIdle ==
    /\ rle_shape = <<1, 1>>
    /\ rle_y = <<FALSE>>
    /\ rle_dots = <<>>
    /\ rle_k = 1
    /\ run_lengths = <<>>
    /\ rle_prev = -2
    /\ rle_pc = "idle"

\* the body of `for b in dots`: the list after lines 122-123
RleBody(b, runs, prev) ==
    LET ext == IF b > prev + 1 THEN runs \o <<b + 1, 0>> ELSE runs
    IN [ext EXCEPT ![Len(ext)] = @ + 1]

\* the loop from position k on, run to its end
RECURSIVE RleLoop(_, _, _, _)
RleLoop(dots, k, runs, prev) ==
    IF k > Len(dots) THEN runs
    ELSE RleLoop(dots, k + 1, RleBody(dots[k], runs, prev), dots[k])

\* rle_encoding(y) as one value, for the callers that use its result
RleEncoding(y, shape) == RleLoop(Dots(y, shape), 1, <<>>, -2)

\* one iteration of `for b in dots`
RleStep ==
    /\ rle_pc = "loop"
    /\ rle_k <= Len(rle_dots)
    /\ run_lengths' = RleBody(rle_dots[rle_k], run_lengths, rle_prev)
    /\ rle_prev' = rle_dots[rle_k]
    /\ rle_k' = rle_k + 1
    /\ UNCHANGED <<rle_shape, rle_y, rle_dots, rle_pc>>
    /\ UNCHANGED <<threshold, iouVars, sizeVars, wsVars, rlesVars, ckVars>>

\* `return run_lengths`
RleReturn ==
    /\ rle_pc = "loop"
    /\ rle_k > Len(rle_dots)
    /\ rle_pc' = "done"
    /\ UNCHANGED <<rle_shape, rle_y, rle_dots, rle_k, run_lengths, rle_prev>>
    /\ UNCHANGED <<threshold, iouVars, sizeVars, wsVars, rlesVars, ckVars>>

RleNext == RleStep \/ RleReturn

\* ------------------------------------------------- connected components
\* pixels i and j of an image of the given shape are neighbours: conn = 1 counts
\* the 4 orthogonal neighbours, conn = 2 the diagonal ones as well
Adjacent(i, j, shape, conn) ==
    LET dr == RowOf(i, shape) - RowOf(j, shape)
        dc == ColOf(i, shape) - ColOf(j, shape)
        ar == IF dr < 0 THEN -dr ELSE dr
        ac == IF dc < 0 THEN -dc ELSE dc
    IN /\ i # j
       /\ ar <= 1
       /\ ac <= 1
       /\ ar + ac <= conn

\* the pixels reachable from S through neighbours carrying the same value
RECURSIVE Grow(_, _, _, _)
Grow(S, img, shape, conn) ==
    LET N == S \cup {j \in DOMAIN img :
                       \E i \in S : img[j] = img[i] /\ Adjacent(i, j, shape, conn)}
    IN IF N = S THEN S ELSE Grow(N, img, shape, conn)

\* connected-component labelling of an integer image: 0 is background, the
\* components are numbered 1, 2, ... in raster order of their first pixel
ConnLabel(img, shape, conn) ==
    LET fg == {i \in DOMAIN img : img[i] # 0}
        root == [i \in DOMAIN img |->
                   IF i \in fg THEN Min(Grow({i}, img, shape, conn)) ELSE 0]
        roots == {root[i] : i \in fg}
    IN [i \in DOMAIN img |->
          IF i \in fg THEN Cardinality({r \in roots : r <= root[i]}) ELSE 0]

\* the labelling with the orthogonal neighbours only

\* skimage's label(): full connectivity (input.ndim), so 8 neighbours in 2-D
SkLabel(img, shape) == ConnLabel(img, shape, 2)

\* scipy's ndi.label with its default structure: the 4 orthogonal neighbours
NdiLabel(img, shape) == ConnLabel(img, shape, 1)

\* a boolean array as the integers numpy computes with
AsInt(mask) == [i \in DOMAIN mask |-> IF mask[i] THEN 1 ELSE 0]

\* `img > threshold`
Above(img, thr) == [i \in DOMAIN img |-> img[i] > thr]

\* np.unique
Unique(img) == Range(img)

PosLabels(img) == Unique(img) \ {0}

Pixels(img, v) == {i \in DOMAIN img : img[i] = v}


\* ------------------------------------------------------------- iou_metric
\* np.histogram's bin of value v among n equal-width bins over [lo, hi]; the
\* last bin is closed, and a single value (lo = hi) has the one bin
BinOf(v, lo, hi, n) ==
    IF v = hi THEN n - 1 ELSE ((v - lo) * n) \div (hi - lo)

BinIn(img, v) == BinOf(v, Min(Unique(img)), Max(Unique(img)), Cardinality(Unique(img)))

\* np.histogram2d(labels.flatten(), y_pred.flatten(), bins=(true_objects, pred_objects))[0]
Histogram2d(lab, pred) ==
    [c \in (0..(Cardinality(Unique(lab)) - 1)) \X (0..(Cardinality(Unique(pred)) - 1)) |->
        Cardinality({i \in DOMAIN lab :
                        BinIn(lab, lab[i]) = c[1] /\ BinIn(pred, pred[i]) = c[2]})]

\* np.histogram(img, bins=len(np.unique(img)))[0]
Histogram(img) ==
    [b \in 0..(Cardinality(Unique(img)) - 1) |->
        Cardinality({i \in DOMAIN img : BinIn(img, img[i]) = b})]

\* the rows and columns that intersection[1:,1:] keeps
IouRowIds == DOMAIN area_true \ {0}

IouColIds == DOMAIN area_pred \ {0}

\* iou[c] > t for t in percent; a zero union was floored to 1e-9, so the
\* quotient is 0 for an empty intersection and huge otherwise
IouGt(cell, t) ==
    IF cell.union = 0 THEN cell.inter > 0 ELSE cell.inter * 100 > t * cell.union

\* the comparison with >= in place of >
IouGe(cell, t) ==
    IF cell.union = 0 THEN cell.inter > 0 ELSE cell.inter * 100 >= t * cell.union

\* the match with a non-strict comparison
MatchesGe(t) == {c \in DOMAIN iou : IouGe(iou[c], t)}

\* matches = iou > threshold
Matches(t) == {c \in DOMAIN iou : IouGt(iou[c], t)}

\* precision_at(threshold, iou): <<tp, fp, fn>>
PrecisionAt(t) ==
    LET m == Matches(t)
        rowsum(r) == Cardinality({c \in m : c[1] = r})
        colsum(k) == Cardinality({c \in m : c[2] = k})
    IN << Cardinality({r \in IouRowIds : rowsum(r) = 1}),
          Cardinality({k \in IouColIds : colsum(k) = 0}),
          Cardinality({r \in IouRowIds : rowsum(r) = 0}) >>

\* np.arange(0.5, 1.0, 0.05) in percent
SweepThreshold(k) == 50 + 5 * (k - 1)

SweepLength == 10

RECURSIVE Gcd(_, _)
Gcd(a, b) == IF b = 0 THEN a ELSE Gcd(b, a % b)

Lcm(a, b) == (a * b) \div Gcd(a, b)

RECURSIVE LcmDen(_)
LcmDen(ps) == IF ps = <<>> THEN 1 ELSE Lcm(Head(ps)[2], LcmDen(Tail(ps)))

RECURSIVE SumOver(_, _)
SumOver(ps, d) ==
    IF ps = <<>> THEN 0 ELSE Head(ps)[1] * (d \div Head(ps)[2]) + SumOver(Tail(ps), d)

\* np.mean of a list of fractions, as <<numerator, denominator>>
Mean(ps) == LET d == LcmDen(ps) IN <<SumOver(ps, d), d * Len(ps)>>

FracEq(a, b) == a[1] * b[2] = b[1] * a[2]

IouIdle ==
    /\ instance_level = FALSE
    /\ iou_shape = <<1, 1>>
    /\ y_true_in = <<>>
    /\ y_pred_in = <<>>
    /\ labels = <<>>
    /\ y_pred = <<>>
    /\ intersection = <<>>
    /\ area_true = <<>>
    /\ area_pred = <<>>
    /\ iou = <<>>
    /\ iou_ti = 0
    /\ prec = <<>>
    /\ iou_rows = <<>>
    /\ iou_score = <<0, 1>>
    /\ iou_pc = "idle"

\* a call iou_metric(y_pred_in, y_true_in, instance_level): the truth is a
\* LabelImage or a probability map, the prediction a probability map or, for
\* the exact-match case, the truth array itself
IouInit ==
    /\ instance_level \in BOOLEAN
    /\ iou_shape \in Shapes(IouPixels)
    /\ y_true_in \in Images(iou_shape, 0..MaxLabel)
    /\ y_pred_in \in Images(iou_shape, 0..MaxProb) \cup {y_true_in}
    /\ labels = <<>>
    /\ y_pred = <<>>
    /\ intersection = <<>>
    /\ area_true = <<>>
    /\ area_pred = <<>>
    /\ iou = <<>>
    /\ iou_ti = 0
    /\ prec = <<>>
    /\ iou_rows = <<>>
    /\ iou_score = <<0, 1>>
    /\ iou_pc = "label"

\* lines 51-55
IouLabel ==
    /\ iou_pc = "label"
    /\ y_pred' = SkLabel(AsInt(Above(y_pred_in, threshold)), iou_shape)
    /\ labels' = IF instance_level THEN y_true_in
                 ELSE SkLabel(AsInt(Above(y_true_in, threshold)), iou_shape)
    /\ iou_pc' = "hist"
    /\ UNCHANGED <<instance_level, iou_shape, y_true_in, y_pred_in, intersection,
                   area_true, area_pred, iou, iou_ti, prec, iou_rows, iou_score>>
    /\ UNCHANGED <<threshold, rleVars, sizeVars, wsVars, rlesVars, ckVars>>

\* lines 57-66
IouHistogram ==
    /\ iou_pc = "hist"
    /\ intersection' = Histogram2d(labels, y_pred)
    /\ area_true' = Histogram(labels)
    /\ area_pred' = Histogram(y_pred)
    /\ iou_pc' = "union"
    /\ UNCHANGED <<instance_level, iou_shape, y_true_in, y_pred_in, labels, y_pred,
                   iou, iou_ti, prec, iou_rows, iou_score>>
    /\ UNCHANGED <<threshold, rleVars, sizeVars, wsVars, rlesVars, ckVars>>

\* lines 69-77: the union, the [1:,1:] slices, the floor and the quotient
IouUnion ==
    /\ iou_pc = "union"
    /\ iou' = [c \in {d \in DOMAIN intersection : d[1] >= 1 /\ d[2] >= 1} |->
                 [inter |-> intersection[c],
                  union |-> area_true[c[1]] + area_pred[c[2]] - intersection[c]]]
    /\ iou_pc' = "sweep"
    /\ UNCHANGED <<instance_level, iou_shape, y_true_in, y_pred_in, labels, y_pred,
                   intersection, area_true, area_pred, iou_ti, prec, iou_rows, iou_score>>
    /\ UNCHANGED <<threshold, rleVars, sizeVars, wsVars, rlesVars, ckVars>>

\* one iteration of `for t in np.arange(0.5, 1.0, 0.05)`
IouSweep ==
    /\ iou_pc = "sweep"
    /\ iou_ti < SweepLength
    /\ LET t == SweepThreshold(iou_ti + 1)
           r == PrecisionAt(t)
           n == r[1] + r[2] + r[3]
           p == IF n > 0 THEN <<r[1], n>> ELSE <<0, 1>>
       IN /\ prec' = Append(prec, p)
          /\ iou_rows' = Append(iou_rows, <<t, r[1], r[2], r[3]>>)
    /\ iou_ti' = iou_ti + 1
    /\ UNCHANGED <<instance_level, iou_shape, y_true_in, y_pred_in, labels, y_pred,
                   intersection, area_true, area_pred, iou, iou_score, iou_pc>>
    /\ UNCHANGED <<threshold, rleVars, sizeVars, wsVars, rlesVars, ckVars>>

\* `return np.mean(prec)`
IouReturn ==
    /\ iou_pc = "sweep"
    /\ iou_ti = SweepLength
    /\ iou_score' = Mean(prec)
    /\ iou_pc' = "done"
    /\ UNCHANGED <<instance_level, iou_shape, y_true_in, y_pred_in, labels, y_pred,
                   intersection, area_true, area_pred, iou, iou_ti, prec, iou_rows>>
    /\ UNCHANGED <<threshold, rleVars, sizeVars, wsVars, rlesVars, ckVars>>

IouNext == IouLabel \/ IouHistogram \/ IouUnion \/ IouSweep \/ IouReturn

ConfigInit == threshold \in 0..(MaxProb - 1)

RECURSIVE SumCells(_, _)
SumCells(f, S) ==
    IF S = {} THEN 0
    ELSE LET c == CHOOSE x \in S : TRUE IN f[c] + SumCells(f, S \ {c})

\* the shapes of the histograms drawn directly: the first bin and up to two
\* more truth bins, the first bin and up to one more predicted bin
TableShapes == (1..3) \X (1..2)

\* the 2-D histograms of images of at most MaxPixels pixels: np.unique makes
\* the smallest and the largest truth value fall in the first and the last
\* row, and the predicted labels come from label(), so no column is empty
Tables(shape) ==
    LET cells == (0..(shape[1] - 1)) \X (0..(shape[2] - 1))
        row(r) == {c \in cells : c[1] = r}
        col(k) == {c \in cells : c[2] = k}
    IN {f \in [cells -> 0..MaxPixels] :
          /\ SumCells(f, cells) <= MaxPixels
          /\ SumCells(f, row(0)) >= 1
          /\ SumCells(f, row(shape[1] - 1)) >= 1
          /\ \A k \in 0..(shape[2] - 1) : SumCells(f, col(k)) >= 1}

\* iou_metric after line 66, its images abstracted to their 2-D histogram:
\* the 1-D histograms bin the same values the same way, so they are its sums
TableInit ==
    /\ instance_level \in BOOLEAN
    /\ iou_shape = <<1, 1>>
    /\ y_true_in = <<>>
    /\ y_pred_in = <<>>
    /\ labels = <<>>
    /\ y_pred = <<>>
    /\ \E shape \in TableShapes :
          /\ intersection \in Tables(shape)
          /\ area_true = [r \in 0..(shape[1] - 1) |->
                SumCells(intersection, {c \in DOMAIN intersection : c[1] = r})]
          /\ area_pred = [k \in 0..(shape[2] - 1) |->
                SumCells(intersection, {c \in DOMAIN intersection : c[2] = k})]
    /\ iou = <<>>
    /\ iou_ti = 0
    /\ prec = <<>>
    /\ iou_rows = <<>>
    /\ iou_score = <<0, 1>>
    /\ iou_pc = "union"

PrecNext == IouUnion \/ IouSweep \/ IouReturn


\* ----------------------------------------------------------- evaluate_size
\* a sequence of integers sorted ascending (list.sort)
RECURSIVE Insert(_, _)
Insert(x, sq) ==
    IF sq = <<>> THEN <<x>>
    ELSE IF x <= Head(sq) THEN <<x>> \o sq
    ELSE <<Head(sq)>> \o Insert(x, Tail(sq))

RECURSIVE ListSort(_)
ListSort(sq) == IF sq = <<>> THEN <<>> ELSE Insert(Head(sq), ListSort(Tail(sq)))

\* [r.area for r in regionprops(label_image)]: one region per positive label,
\* in label order
RegionAreas(lab) ==
    LET ls == SortedSeq(PosLabels(lab))
    IN [k \in 1..Len(ls) |-> Cardinality(Pixels(lab, ls[k]))]

RECURSIVE SeqSum(_)
SeqSum(sq) == IF sq = <<>> THEN 0 ELSE Head(sq) + SeqSum(Tail(sq))

\* sq[:n]
Prefix(sq, n) == SubSeq(sq, 1, IF n < Len(sq) THEN n ELSE Len(sq))

\* int(count * ratio)
ScaleDown(count, ratio) == (count * ratio[1]) \div ratio[2]

\* the count without the background label
InstanceCountOnly(lab) == Cardinality(PosLabels(lab))

\* len(np.unique(label_image)): the background label 0 is one of the values
LabelCounts(lab) == Cardinality(Unique(lab))

Ratios == {<<n, RatioDen>> : n \in 1..RatioDen}

SizeIdle ==
    /\ size_shape = <<1, 1>>
    /\ size_image = <<>>
    /\ size_ratio = <<1, 1>>
    /\ label_image = <<>>
    /\ label_counts = 0
    /\ areas = <<>>
    /\ eval_count = 0
    /\ size_used = <<>>
    /\ average_area = <<0, 0>>
    /\ size_pc = "idle"

SizeInit ==
    /\ size_shape \in Shapes(MaxPixels)
    /\ size_image \in Images(size_shape, 0..SizeLabels)
    /\ size_ratio \in Ratios
    /\ label_image = <<>>
    /\ label_counts = 0
    /\ areas = <<>>
    /\ eval_count = 0
    /\ size_used = <<>>
    /\ average_area = <<0, 0>>
    /\ size_pc = "label"

\* lines 189-190
SizeLabel ==
    /\ size_pc = "label"
    /\ label_image' = SkLabel(size_image, size_shape)
    /\ label_counts' = LabelCounts(label_image')
    /\ size_pc' = "areas"
    /\ UNCHANGED <<size_shape, size_image, size_ratio, areas, eval_count, size_used,
                   average_area>>
    /\ UNCHANGED <<threshold, rleVars, iouVars, wsVars, rlesVars, ckVars>>

\* lines 192-193
SizeAreas ==
    /\ size_pc = "areas"
    /\ areas' = ListSort(RegionAreas(label_image))
    /\ size_pc' = "count"
    /\ UNCHANGED <<size_shape, size_image, size_ratio, label_image, label_counts,
                   eval_count, size_used, average_area>>
    /\ UNCHANGED <<threshold, rleVars, iouVars, wsVars, rlesVars, ckVars>>

\* lines 196-199
SizeCount ==
    /\ size_pc = "count"
    /\ eval_count' = IF ScaleDown(label_counts, size_ratio) = 0 THEN 1
                     ELSE ScaleDown(label_counts, size_ratio)
    /\ size_pc' = "mean"
    /\ UNCHANGED <<size_shape, size_image, size_ratio, label_image, label_counts,
                   areas, size_used, average_area>>
    /\ UNCHANGED <<threshold, rleVars, iouVars, wsVars, rlesVars, ckVars>>

\* lines 200-202; the square root is monotone and left out
SizeReturn ==
    /\ size_pc = "mean"
    /\ size_used' = Prefix(areas, eval_count)
    /\ average_area' = <<SeqSum(size_used'), Len(size_used')>>
    /\ size_pc' = "done"
    /\ UNCHANGED <<size_shape, size_image, size_ratio, label_image, label_counts,
                   areas, eval_count>>
    /\ UNCHANGED <<threshold, rleVars, iouVars, wsVars, rlesVars, ckVars>>

SizeNext == SizeLabel \/ SizeAreas \/ SizeCount \/ SizeReturn


\* ------------------------------------------------------------- watershed
\* the frontier with the diagonal neighbours flooded too
FrontierDiagonal(out, mask, shape) ==
    {e \in (DOMAIN out) \X (DOMAIN out) :
        /\ out[e[1]] # 0
        /\ out[e[2]] = 0
        /\ mask[e[2]]
        /\ Adjacent(e[1], e[2], shape, 2)}

\* The flood of skimage's watershed(image, markers, mask=mask): the output
\* starts as the markers; a labelled pixel is popped and each of its still
\* unlabelled orthogonal neighbours inside the mask takes its label and is
\* queued.  The order of the pops follows the image values (the negated distance,
\* in seg_ws with fresh noise added): here any order is allowed, which covers
\* every order the values can give.
Frontier(out, mask, shape) ==
    {e \in (DOMAIN out) \X (DOMAIN out) :
        /\ out[e[1]] # 0
        /\ out[e[2]] = 0
        /\ mask[e[2]]
        /\ Adjacent(e[1], e[2], shape, 1)}

\* image != 0, the mask watershed makes of an integer image
NonZero(img) == [i \in DOMAIN img |-> img[i] # 0]

\* the 0/1 image of a set of pixels
Indicator(P, n) == [i \in 1..n |-> IF i \in P THEN 1 ELSE 0]

\* (raw_bodies - k * raw_edges) > threshold
Seeds(bodies, edges, k, thr) == [i \in DOMAIN bodies |-> bodies[i] - k * edges[i] > thr]

WsIdle ==
    /\ ws_fn = "none"
    /\ ws_shape = <<1, 1>>
    /\ ws_image = <<>>
    /\ raw_bodies = <<>>
    /\ raw_edges = <<>>
    /\ edge_weight = 0
    /\ ws_mask = <<>>
    /\ ws_markers = <<>>
    /\ ws_out = <<>>
    /\ ws_pc = "idle"

\* a call seg_ws(image), image a binary mask or its LabelImage, or a call
\* seg_ws_by_edge(raw_bodies, raw_edges) on two probability maps, the edge map
\* saturated (0 or MaxProb at each pixel)
WsInit ==
    /\ ws_shape \in Shapes(WsPixels)
    /\ \/ /\ ws_fn = "seg_ws_by_edge"
          /\ edge_weight \in 0..MaxWeight
          /\ ws_image = <<>>
          /\ raw_bodies \in Images(ws_shape, 0..MaxProb)
          /\ raw_edges \in Images(ws_shape, {0, MaxProb})
       \/ /\ ws_fn = "seg_ws"
          /\ edge_weight = 0
          /\ \E m \in Images(ws_shape, 0..1) : ws_image \in {m, SkLabel(m, ws_shape)}
          /\ raw_bodies = <<>>
          /\ raw_edges = <<>>
    /\ ws_mask = <<>>
    /\ ws_markers = <<>>
    /\ ws_out = <<>>
    /\ ws_pc = "call"

\* seg_ws, lines 206-221.  peak_local_max(..., labels=image) returns pixels of
\* the labelled regions only; which of them are peaks depends on min_distance
\* (from evaluate_size) and on the noise drawn, so any set of them may come out
SegWsMarkers ==
    /\ ws_fn = "seg_ws"
    /\ ws_pc = "call"
    /\ \E local_maxi \in SUBSET {i \in DOMAIN ws_image : ws_image[i] # 0} :
          ws_markers' = NdiLabel(Indicator(local_maxi, Len(ws_image)), ws_shape)
    /\ ws_mask' = NonZero(ws_image)
    /\ ws_out' = ws_markers'
    /\ ws_pc' = "flood"
    /\ UNCHANGED <<ws_fn, ws_shape, ws_image, raw_bodies, raw_edges, edge_weight>>
    /\ UNCHANGED <<threshold, rleVars, iouVars, sizeVars, rlesVars, ckVars>>

\* seg_ws_by_edge, lines 226-233
SegEdgeMarkers ==
    /\ ws_fn = "seg_ws_by_edge"
    /\ ws_pc = "call"
    /\ ws_mask' = Above(raw_bodies, threshold)
    /\ ws_markers' = SkLabel(AsInt(Seeds(raw_bodies, raw_edges, edge_weight, threshold)),
                             ws_shape)
    /\ ws_out' = ws_markers'
    /\ ws_pc' = "flood"
    /\ UNCHANGED <<ws_fn, ws_shape, ws_image, raw_bodies, raw_edges, edge_weight>>
    /\ UNCHANGED <<threshold, rleVars, iouVars, sizeVars, rlesVars, ckVars>>

\* watershed (line 222, line 234): one pixel takes the label of a neighbour
WsFlood ==
    /\ ws_pc = "flood"
    /\ \E e \in Frontier(ws_out, ws_mask, ws_shape) :
          ws_out' = [ws_out EXCEPT ![e[2]] = ws_out[e[1]]]
    /\ UNCHANGED <<ws_fn, ws_shape, ws_image, raw_bodies, raw_edges, edge_weight,
                   ws_mask, ws_markers, ws_pc>>
    /\ UNCHANGED <<threshold, rleVars, iouVars, sizeVars, rlesVars, ckVars>>

\* the queue is empty: watershed returns its output
WsFinish ==
    /\ ws_pc = "flood"
    /\ Frontier(ws_out, ws_mask, ws_shape) = {}
    /\ ws_pc' = "done"
    /\ UNCHANGED <<ws_fn, ws_shape, ws_image, raw_bodies, raw_edges, edge_weight,
                   ws_mask, ws_markers, ws_out>>
    /\ UNCHANGED <<threshold, rleVars, iouVars, sizeVars, rlesVars, ckVars>>

WsNext == SegWsMarkers \/ SegEdgeMarkers \/ WsFlood \/ WsFinish

\* ----------------------------------------------------------- prob_to_rles
\* remove_small_objects(y, min_size) on a boolean array: its components are
\* those of ndi.label with connectivity 1, and the ones smaller than min_size
\* are cleared; min_size = 0 returns the array as it is
RemoveSmallObjects(mask, shape, m) ==
    IF m = 0 THEN mask
    ELSE LET ccs == NdiLabel(AsInt(mask), shape)
         IN [i \in DOMAIN mask |->
               mask[i] /\ Cardinality(Pixels(ccs, ccs[i])) >= m]

\* the loop with its last label left out
LastLabelShort(lab) == Max(Unique(lab)) - 1

\* the last i of range(1, lab_img.max() + 1)
LastLabel(lab) == Max(Unique(lab))

\* lab_img == i
LabelMask(lab, i) == [p \in DOMAIN lab |-> lab[p] = i]

RlesIdle ==
    /\ rles_shape = <<1, 1>>
    /\ rles_in = <<>>
    /\ segmentation = FALSE
    /\ remove_objects = FALSE
    /\ min_object_size = 0
    /\ rles_y = <<>>
    /\ lab_img = <<>>
    /\ rles_i = 1
    /\ yielded = <<>>
    /\ rles_stops = 0
    /\ rles_runs = 0
    /\ rles_first = <<>>
    /\ rles_pc = "idle"

\* the generator prob_to_rles(y) just created: nothing of its body has run
RlesInit ==
    /\ rles_shape \in Shapes(RlesPixels)
    /\ rles_in \in Images(rles_shape, 0..MaxProb)
    /\ segmentation \in BOOLEAN
    /\ remove_objects \in BOOLEAN
    /\ min_object_size \in 0..MaxMinSize
    /\ rles_y = <<>>
    /\ lab_img = <<>>
    /\ rles_i = 1
    /\ yielded = <<>>
    /\ rles_stops = 0
    /\ rles_runs = 1
    /\ rles_first = <<>>
    /\ rles_pc = "start"

\* lines 128-133
RlesThreshold ==
    /\ rles_pc = "start"
    /\ rles_y' = Above(rles_in, threshold)
    /\ rles_pc' = "remove"
    /\ UNCHANGED <<rles_shape, rles_in, segmentation, remove_objects, min_object_size,
                   lab_img, rles_i, yielded, rles_stops, rles_runs, rles_first>>
    /\ UNCHANGED <<threshold, rleVars, iouVars, sizeVars, wsVars, ckVars>>

\* lines 134-135
RlesRemove ==
    /\ rles_pc = "remove"
    /\ rles_y' = IF remove_objects
                 THEN RemoveSmallObjects(rles_y, rles_shape, min_object_size)
                 ELSE rles_y
    /\ rles_pc' = "label"
    /\ UNCHANGED <<rles_shape, rles_in, segmentation, remove_objects, min_object_size,
                   lab_img, rles_i, yielded, rles_stops, rles_runs, rles_first>>
    /\ UNCHANGED <<threshold, rleVars, iouVars, sizeVars, wsVars, ckVars>>

\* line 136
RlesLabel ==
    /\ rles_pc = "label"
    /\ lab_img' = SkLabel(AsInt(rles_y), rles_shape)
    /\ rles_pc' = "segment"
    /\ UNCHANGED <<rles_shape, rles_in, segmentation, remove_objects, min_object_size,
                   rles_y, rles_i, yielded, rles_stops, rles_runs, rles_first>>
    /\ UNCHANGED <<threshold, rleVars, iouVars, sizeVars, wsVars, ckVars>>

\* line 137 with segmentation off
RlesNoSegment ==
    /\ rles_pc = "segment"
    /\ ~segmentation
    /\ rles_i' = 1
    /\ rles_pc' = "loop"
    /\ UNCHANGED <<rles_shape, rles_in, segmentation, remove_objects, min_object_size,
                   rles_y, lab_img, yielded, rles_stops, rles_runs, rles_first>>
    /\ UNCHANGED <<threshold, rleVars, iouVars, sizeVars, wsVars, ckVars>>

\* lines 137-138: the call seg_ws(lab_img)
RlesSegment ==
    /\ rles_pc = "segment"
    /\ segmentation
    /\ ws_fn' = "seg_ws"
    /\ ws_shape' = rles_shape
    /\ ws_image' = lab_img
    /\ ws_pc' = "call"
    /\ rles_pc' = "in_seg"
    /\ UNCHANGED <<raw_bodies, raw_edges, edge_weight, ws_mask, ws_markers, ws_out>>
    /\ UNCHANGED <<rles_shape, rles_in, segmentation, remove_objects, min_object_size,
                   rles_y, lab_img, rles_i, yielded, rles_stops, rles_runs, rles_first>>
    /\ UNCHANGED <<threshold, rleVars, iouVars, sizeVars, ckVars>>

\* line 138: seg_ws returns and lab_img is replaced
RlesSegmentReturn ==
    /\ rles_pc = "in_seg"
    /\ ws_pc = "done"
    /\ lab_img' = ws_out
    /\ rles_i' = 1
    /\ rles_pc' = "loop"
    /\ ws_pc' = "idle"
    /\ UNCHANGED <<ws_fn, ws_shape, ws_image, raw_bodies, raw_edges, edge_weight,
                   ws_mask, ws_markers, ws_out>>
    /\ UNCHANGED <<rles_shape, rles_in, segmentation, remove_objects, min_object_size,
                   rles_y, yielded, rles_stops, rles_runs, rles_first>>
    /\ UNCHANGED <<threshold, rleVars, iouVars, sizeVars, ckVars>>

\* lines 139-140: one `yield rle_encoding(lab_img == i)`
RlesYield ==
    /\ rles_pc = "loop"
    /\ rles_i <= LastLabel(lab_img)
    /\ yielded' = Append(yielded, RleEncoding(LabelMask(lab_img, rles_i), rles_shape))
    /\ rles_i' = rles_i + 1
    /\ UNCHANGED <<rles_shape, rles_in, segmentation, remove_objects, min_object_size,
                   rles_y, lab_img, rles_stops, rles_runs, rles_first, rles_pc>>
    /\ UNCHANGED <<threshold, rleVars, iouVars, sizeVars, wsVars, ckVars>>

\* the range is used up: the generator returns and next() raises StopIteration
RlesStop ==
    /\ rles_pc = "loop"
    /\ rles_i > LastLabel(lab_img)
    /\ rles_stops' = 1
    /\ rles_first' = IF rles_runs = 1 THEN yielded ELSE rles_first
    /\ rles_pc' = "exhausted"
    /\ UNCHANGED <<rles_shape, rles_in, segmentation, remove_objects, min_object_size,
                   rles_y, lab_img, rles_i, yielded, rles_runs>>
    /\ UNCHANGED <<threshold, rleVars, iouVars, sizeVars, wsVars, ckVars>>

\* next() on the finished generator: StopIteration again, no body runs
RlesNextExhausted ==
    /\ rles_pc = "exhausted"
    /\ rles_stops < MaxStops
    /\ rles_stops' = rles_stops + 1
    /\ UNCHANGED <<rles_shape, rles_in, segmentation, remove_objects, min_object_size,
                   rles_y, lab_img, rles_i, yielded, rles_runs, rles_first, rles_pc>>
    /\ UNCHANGED <<threshold, rleVars, iouVars, sizeVars, wsVars, ckVars>>

\* prob_to_rles is called again with the same argument: a fresh generator.
\* Followed where the pipeline is deterministic; with segmentation the noise is
\* drawn afresh and the call is another first call
RlesReinvoke ==
    /\ rles_pc = "exhausted"
    /\ ~segmentation
    /\ rles_runs < MaxRuns
    /\ rles_runs' = rles_runs + 1
    /\ rles_y' = <<>>
    /\ lab_img' = <<>>
    /\ rles_i' = 1
    /\ yielded' = <<>>
    /\ rles_stops' = 0
    /\ rles_pc' = "start"
    /\ UNCHANGED <<rles_shape, rles_in, segmentation, remove_objects, min_object_size,
                   rles_first>>
    /\ UNCHANGED <<threshold, rleVars, iouVars, sizeVars, wsVars, ckVars>>

RlesNext ==
    \/ RlesThreshold \/ RlesRemove \/ RlesLabel \/ RlesNoSegment \/ RlesSegment
    \/ SegWsMarkers \/ WsFlood \/ WsFinish \/ RlesSegmentReturn
    \/ RlesYield \/ RlesStop \/ RlesNextExhausted \/ RlesReinvoke

\* ------------------------------------------------------ checkpoint handling
CkIdle ==
    /\ ck_dir = FALSE
    /\ ck_current = 0
    /\ ck_files = {}
    /\ ck_epoch = 0
    /\ ck_last = 0
    /\ ck_saves = 0
    /\ ck_loaded = -1
    /\ ck_pc = "idle"

\* a fresh working directory: no ./checkpoint yet
CkInit == CkIdle

\* ckpt_path(epoch), epoch given (lines 144-147, 155-160): the directory is
\* made and current.json is overwritten with the epoch
CkptPathWrite(e) ==
    /\ ck_dir' = TRUE
    /\ ck_current' = e

\* save_ckpt up to line 163: ckpt = ckpt_path(epoch)
SaveCkptPath ==
    /\ ck_pc = "idle"
    /\ ck_saves < MaxSaves
    /\ \E e \in 1..MaxEpoch :
          /\ CkptPathWrite(e)
          /\ ck_epoch' = e
          /\ ck_last' = e
    /\ ck_saves' = ck_saves + 1
    /\ ck_pc' = "saving"
    /\ UNCHANGED <<ck_files, ck_loaded>>
    /\ UNCHANGED <<threshold, rleVars, iouVars, sizeVars, wsVars, rlesVars>>

\* lines 164-168: torch.save writes ckpt-<epoch>.pkl
SaveCkptWrite ==
    /\ ck_pc = "saving"
    /\ ck_files' = ck_files \cup {ck_epoch}
    /\ ck_pc' = "idle"
    /\ UNCHANGED <<ck_dir, ck_current, ck_epoch, ck_last, ck_saves, ck_loaded>>
    /\ UNCHANGED <<threshold, rleVars, iouVars, sizeVars, wsVars, rlesVars>>

\* lines 164-168: torch.save raises (or the process is stopped) before the file
\* exists; nothing undoes the pointer
SaveCkptFails ==
    /\ ck_pc = "saving"
    /\ ck_pc' = "idle"
    /\ UNCHANGED <<ck_dir, ck_current, ck_files, ck_epoch, ck_last, ck_saves, ck_loaded>>
    /\ UNCHANGED <<threshold, rleVars, iouVars, sizeVars, wsVars, rlesVars>>

\* load_ckpt: ckpt_path() makes the directory and reads the pointer (lines
\* 144-154); the epoch comes from the file it names, 0 if that is no file
LoadCkpt ==
    /\ ck_pc = "idle"
    /\ ck_dir' = TRUE
    /\ ck_loaded' = IF ck_current # 0 /\ ck_current \in ck_files THEN ck_current ELSE 0
    /\ UNCHANGED <<ck_current, ck_files, ck_epoch, ck_last, ck_saves, ck_pc>>
    /\ UNCHANGED <<threshold, rleVars, iouVars, sizeVars, wsVars, rlesVars>>

CkNext == SaveCkptPath \/ SaveCkptWrite \/ SaveCkptFails \/ LoadCkpt


\* --------------------------------------------------------- specifications
InitRle == RleInit /\ ConfigInit /\ IouIdle /\ SizeIdle /\ WsIdle /\ RlesIdle /\ CkIdle

SpecRle == InitRle /\ [][RleNext]_vars

InitPrec == TableInit /\ ConfigInit /\ RleIdle /\ SizeIdle /\ WsIdle /\ RlesIdle /\ CkIdle

SpecPrec == InitPrec /\ [][PrecNext]_vars

InitIou == IouInit /\ ConfigInit /\ RleIdle /\ SizeIdle /\ WsIdle /\ RlesIdle /\ CkIdle

SpecIou == InitIou /\ [][IouNext]_vars

InitSize == SizeInit /\ ConfigInit /\ RleIdle /\ IouIdle /\ WsIdle /\ RlesIdle /\ CkIdle

SpecSize == InitSize /\ [][SizeNext]_vars

InitWs == WsInit /\ ConfigInit /\ RleIdle /\ IouIdle /\ SizeIdle /\ RlesIdle /\ CkIdle

SpecWs == InitWs /\ [][WsNext]_vars

InitRles == RlesInit /\ ConfigInit /\ RleIdle /\ IouIdle /\ SizeIdle /\ WsIdle /\ CkIdle

SpecRles == InitRles /\ [][RlesNext]_vars

InitCk == CkInit /\ ConfigInit /\ RleIdle /\ IouIdle /\ SizeIdle /\ WsIdle /\ RlesIdle

SpecCk == InitCk /\ [][CkNext]_vars


\* ------------------------------------------------------ reading an RLE back
NumRuns(rle) == Len(rle) \div 2

RunStart(rle, j) == rle[2 * j - 1]

RunLen(rle, j) == rle[2 * j]

\* the 1-based column-major offsets an RLE names
RleOffsets(rle) ==
    UNION {RunStart(rle, j)..(RunStart(rle, j) + RunLen(rle, j) - 1) : j \in 1..NumRuns(rle)}

\* the mask of the given shape whose true pixels are exactly those offsets
RleDecode(rle, shape) ==
    [i \in 1..(shape[1] * shape[2]) |-> (ColMajorPos(i, shape) + 1) \in RleOffsets(rle)]

RleWellFormed(rle) ==
    /\ Len(rle) % 2 = 0
    /\ \A j \in 1..NumRuns(rle) : RunStart(rle, j) >= 1 /\ RunLen(rle, j) >= 1
    /\ \A j \in 1..(NumRuns(rle) - 1) :
           RunStart(rle, j) + RunLen(rle, j) - 1 < RunStart(rle, j + 1)

\* C1: when rle_encoding returns, reading its output as (start, length) pairs of
\* 1-based column-major offsets gives back exactly the mask; the runs are sorted
\* ascending and do not overlap; an all-false mask gives the empty list.
C1_RoundTrip ==
    rle_pc = "done" =>
        /\ RleWellFormed(run_lengths)
        /\ RleDecode(run_lengths, rle_shape) = rle_y
        /\ ((\A i \in DOMAIN rle_y : ~rle_y[i]) => run_lengths = <<>>)

\* a 2 x 3 mask with a run that crosses a column boundary and a second run
C1_Witness ==
    /\ rle_pc = "done"
    /\ rle_shape = <<2, 3>>
    /\ rle_y = <<TRUE, TRUE, FALSE, TRUE, FALSE, TRUE>>
    /\ run_lengths = <<1, 3, 6, 1>>

\* --------------------------------------------------- claims on iou_metric
\* C2: with instance_level set and the prediction identical to the truth
\* LabelImage (at least one instance), iou_metric returns exactly 1.0.
C2_ExactMatchScoresOne ==
    (/\ iou_pc = "done"
     /\ instance_level
     /\ y_pred_in = y_true_in
     /\ PosLabels(y_true_in) # {})
    => FracEq(iou_score, <<1, 1>>)

\* truth instance A, truth instance B and one predicted instance whose IoU with
\* A is exactly 0.8 (5 * intersection = 4 * union) and which matches B at no
\* threshold of the sweep
C3_Case(a, b) ==
    /\ iou_pc \in {"sweep", "done"}
    /\ IouRowIds = {a, b}
    /\ a # b
    /\ IouColIds = {1}
    /\ iou[<<a, 1>>].union > 0
    /\ 5 * iou[<<a, 1>>].inter = 4 * iou[<<a, 1>>].union
    /\ ~IouGt(iou[<<b, 1>>], SweepThreshold(1))

C3_Holds(lastHalf) ==
    \A a, b \in IouRowIds : C3_Case(a, b) =>
        /\ \A k \in 1..Len(iou_rows) :
              IF iou_rows[k][1] <= lastHalf
              THEN /\ iou_rows[k] = <<iou_rows[k][1], 1, 0, 1>>
                   /\ FracEq(prec[k], <<1, 2>>)
              ELSE FracEq(prec[k], <<0, 1>>)
        /\ iou_pc = "done" =>
              FracEq(iou_score, <<Cardinality({k \in 1..SweepLength :
                                     SweepThreshold(k) <= lastHalf}), 2 * SweepLength>>)

C4_CountsPartition ==
    \A k \in 1..Len(iou_rows) :
        /\ iou_rows[k][2] + iou_rows[k][4] = Cardinality(PosLabels(labels))
        /\ iou_rows[k][2] + iou_rows[k][3] = Cardinality(PosLabels(y_pred))

\* C5: with instance_level set, the sliced table has one row per positive truth
\* label and one column per positive predicted label, and cell (i, j) holds the
\* pixel intersection and union of truth instance i and predicted instance j.
C5_TableIsPerInstance ==
    (iou_pc \in {"sweep", "done"} /\ instance_level) =>
        LET tl == SortedSeq(PosLabels(labels))
            pl == SortedSeq(PosLabels(y_pred))
        IN /\ IouRowIds = 1..Len(tl)
           /\ IouColIds = 1..Len(pl)
           /\ \A c \in DOMAIN iou :
                 /\ c[1] \in 1..Len(tl)
                 /\ c[2] \in 1..Len(pl)
                 /\ iou[c].inter =
                      Cardinality(Pixels(labels, tl[c[1]]) \cap Pixels(y_pred, pl[c[2]]))
                 /\ iou[c].union =
                      Cardinality(Pixels(labels, tl[c[1]]) \cup Pixels(y_pred, pl[c[2]]))

\* --------------------------------------------------- claim on evaluate_size
\* C6: for a non-empty label image, the average evaluate_size takes is that of
\* exactly the k smallest instance areas, k = max(1, floor(instanceCount * ratio)),
\* where instanceCount is the number of labelled (non-background) instances.
C6_AveragesSmallestK ==
    (size_pc = "done" /\ areas # <<>>) =>
        LET n == InstanceCountOnly(label_image)
            k == IF ScaleDown(n, size_ratio) = 0 THEN 1 ELSE ScaleDown(n, size_ratio)
        IN FracEq(average_area, <<SeqSum(SubSeq(areas, 1, k)), k>>)

\* -------------------------------------------------- claims on prob_to_rles
TruePixels(mask) == {i \in DOMAIN mask : mask[i]}

\* the instances the generator has yielded, each as its set of pixels
YieldedInstances ==
    {TruePixels(RleDecode(yielded[k], rles_shape)) : k \in 1..Len(yielded)}

\* C7: with remove_objects on and segmentation off, exactly the connected
\* components (as the labelling step counts them) of area < min_object_size are
\* removed: what is yielded is every component of the thresholded mask of area
\* >= min_object_size, unchanged, and nothing else.
C7_RemovesExactlySmall ==
    (rles_pc = "exhausted" /\ remove_objects /\ ~segmentation) =>
        LET full == SkLabel(AsInt(Above(rles_in, threshold)), rles_shape)
        IN YieldedInstances =
             {Pixels(full, v) : v \in {u \in PosLabels(full) :
                                         Cardinality(Pixels(full, u)) >= min_object_size}}

\* C8: with segmentation off the generator yields, for i = 1..max in ascending
\* order, exactly one RLE per positive label of the label image and then stops:
\* as many RLEs as instances, none empty, the decoded masks pairwise disjoint
\* with the filtered foreground as their union; further next() calls on the
\* exhausted generator add nothing, and a second invocation on the same
\* argument yields the same sequence.
C8_GeneratorYieldsEachLabelOnce ==
    (~segmentation /\ rles_pc \in {"loop", "exhausted"}) =>
        /\ Len(yielded) = rles_i - 1
        /\ \A k \in 1..Len(yielded) :
              /\ yielded[k] # <<>>
              /\ RleWellFormed(yielded[k])
              /\ RleDecode(yielded[k], rles_shape) = LabelMask(lab_img, k)
        /\ rles_pc = "exhausted" =>
              /\ Len(yielded) = Cardinality(PosLabels(lab_img))
              /\ PosLabels(lab_img) = 1..Len(yielded)
              /\ \A j, k \in 1..Len(yielded) :
                    j # k => TruePixels(RleDecode(yielded[j], rles_shape))
                               \cap TruePixels(RleDecode(yielded[k], rles_shape)) = {}
              /\ UNION YieldedInstances = TruePixels(rles_y)
              /\ rles_runs > 1 => yielded = rles_first

\* the second invocation on a 1 x 3 map with two instances is exhausted and has
\* been asked once more
C8_Witness ==
    /\ ~segmentation
    /\ rles_pc = "exhausted"
    /\ rles_shape = <<1, 3>>
    /\ rles_runs = 2
    /\ rles_stops = 2
    /\ Len(yielded) = 2
    /\ yielded = rles_first

\* ------------------------------------------- claims on the watershed splitters
MarkerPixels == {i \in DOMAIN ws_markers : ws_markers[i] # 0}

\* the foreground pixels joined to a marker by orthogonal steps inside the mask
Flooded == Grow(MarkerPixels, AsInt(ws_mask), ws_shape, 1)

\* C9 as stated: in the output of seg_ws and of seg_ws_by_edge every pixel
\* outside the mask is 0, every positive label is the label of a marker, and
\* every foreground pixel has a positive label.
C9_NoForegroundLost ==
    ws_pc = "done" =>
        /\ \A p \in DOMAIN ws_out : ~ws_mask[p] => ws_out[p] = 0
        /\ \A p \in DOMAIN ws_out : ws_out[p] # 0 => ws_out[p] \in PosLabels(ws_markers)
        /\ \A p \in DOMAIN ws_out : ws_mask[p] => ws_out[p] > 0

\* C9 as amended: every pixel outside the mask is 0, every positive label is
\* the label of a marker, and a foreground pixel has a positive label exactly
\* when orthogonal steps inside the mask join it to a marker; the foreground
\* that no marker reaches stays 0.
C9_FloodStaysInMask ==
    /\ ws_pc \in {"flood", "done"} =>
          /\ \A p \in DOMAIN ws_out : ~ws_mask[p] => ws_out[p] = 0
          /\ \A p \in DOMAIN ws_out : ws_out[p] # 0 => ws_out[p] \in PosLabels(ws_markers)
          /\ \A p \in MarkerPixels : ws_out[p] = ws_markers[p]
    /\ ws_pc = "done" =>
          \A p \in DOMAIN ws_out : ws_out[p] # 0 <=> p \in Flooded

\* seg_ws_by_edge has flooded one body from its seed and left another body,
\* which has no seed, unlabelled
C9_Witness ==
    /\ ws_fn = "seg_ws_by_edge"
    /\ ws_pc = "done"
    /\ \E p \in DOMAIN ws_out : ws_out[p] # 0 /\ ws_markers[p] = 0
    /\ \E p \in DOMAIN ws_out : ws_mask[p] /\ ws_out[p] = 0

\* ------------------------------------------------ claim on the checkpoints
\* C10: in every reachable state, the one between the pointer write and the
\* end of torch.save included, current.json names a checkpoint file that
\* exists, so load_ckpt returns the epoch of the latest save_ckpt call and
\* returns 0 only when no save was ever made.
C10_PointerNamesFile ==
    /\ ck_current # 0 => ck_current \in ck_files
    /\ ck_loaded = 0 => ck_last = 0

====
